---- MODULE Spec2Model ----
(***************************************************************************)
(* Model of search_engine/search_engine.py: search(docs, query) and the    *)
(* helpers it calls.  Strings are sequences of Unicode code points, so     *)
(* that lower-casing, \w+ tokenisation, the "spam" substring test and the  *)
(* lexicographic comparison of identifiers are computed, not assumed.      *)
(***************************************************************************)
EXTENDS Integers, Sequences, FiniteSets, TLC

VARIABLES docs, query, pc, processed_docs, query_tokens, index,
          candidates, ranked_docs, result

vars == <<docs, query, pc, processed_docs, query_tokens, index,
          candidates, ranked_docs, result>>

(***************************************************************************)
(* Bounds of the explored inputs.                                          *)
(***************************************************************************)
MaxDocs == 2
MaxWords == 1
MaxQueryWords == 2
MaxDocsT == 2
MaxWordsT == 3
MaxDocsP == 3
MaxWordsP == 2
MaxDocsX == 2
MaxPieces == 1
MaxQueryPieces == 1

(***************************************************************************)
(* Characters (code points) and the str/re primitives the code uses.       *)
(***************************************************************************)
Range(s) == {s[i] : i \in 1..Len(s)}

\* str.lower() on one character: A-Z -> a-z, everything else in the
\* alphabet used here (a-z, digits, "_", U+017F, punctuation) is unchanged.
Lower(c) ==
  IF c >= 65 /\ c <= 90 THEN c + 32 ELSE c

LowerText(text) == [i \in 1..Len(text) |-> Lower(text[i])]

\* The class \w of re (str patterns): letters, digits and "_".
IsWordChar(c) ==
  \/ c >= 48 /\ c <= 57
  \/ c >= 65 /\ c <= 90
  \/ c = 95
  \/ c >= 97 /\ c <= 122
  \/ c = 383

\* re.findall(r"\w+", t): the maximal runs of word characters, left to
\* right.  cur is the run being scanned at position i.
RECURSIVE FindAllFrom(_, _, _)
FindAllFrom(t, i, cur) ==
  IF i > Len(t)
    THEN (IF cur = <<>> THEN <<>> ELSE <<cur>>)
    ELSE IF IsWordChar(t[i])
      THEN FindAllFrom(t, i + 1, Append(cur, t[i]))
      ELSE (IF cur = <<>> THEN <<>> ELSE <<cur>>) \o FindAllFrom(t, i + 1, <<>>)

FindAllWords(t) == FindAllFrom(t, 1, <<>>)

MinTokenLen == 4

\* variant: the threshold is one lower
LongEnoughThree(token) == Len(token) >= MinTokenLen - 1

LongEnough(token) == Len(token) >= MinTokenLen

\* _preprocessing_text
PreprocessingText(text) ==
  SelectSeq(FindAllWords(LowerText(text)), LongEnough)

\* _preprocessing
Preprocessing(ds) ==
  [i \in 1..Len(ds) |-> [id |-> ds[i].id, tokens |-> PreprocessingText(ds[i].text)]]

(***************************************************************************)
(* _build_inverted_index                                                   *)
(***************************************************************************)
\* Counter(tokens)[term]
CountOf(tokens, term) == Cardinality({i \in 1..Len(tokens) : tokens[i] = term})

\* One iteration of the loop over docs: index[term][doc_id] = cnt for every
\* term of the document; other entries are left as they are.
IndexAdd(idx, d) ==
  LET tokens == PreprocessingText(d.text)
      terms == Range(tokens)
  IN [term \in (DOMAIN idx) \cup terms |->
        IF term \in terms
          THEN LET old == IF term \in DOMAIN idx THEN idx[term] ELSE <<>>
               IN [i \in (DOMAIN old) \cup {d.id} |->
                     IF i = d.id THEN CountOf(tokens, term) ELSE old[i]]
          ELSE idx[term]]

RECURSIVE IndexFrom(_, _, _)
IndexFrom(ds, i, idx) ==
  IF i > Len(ds) THEN idx ELSE IndexFrom(ds, i + 1, IndexAdd(idx, ds[i]))

BuildInvertedIndex(ds) == IndexFrom(ds, 1, <<>>)

(***************************************************************************)
(* _get_candidates_by_index                                                *)
(***************************************************************************)
\* variant: only the first query token is looked up
CandidateIdsFirstToken(idx, qtokens) ==
  IF qtokens # <<>> /\ qtokens[1] \in DOMAIN idx THEN DOMAIN idx[qtokens[1]] ELSE {}

\* candidate_ids: the union of the posting keys of every query token
CandidateIds(idx, qtokens) ==
  UNION {IF qtokens[k] \in DOMAIN idx THEN DOMAIN idx[qtokens[k]] ELSE {}
           : k \in 1..Len(qtokens)}

\* id_to_doc = {doc.id: doc for doc in processed_docs}: the last document
\* carrying an identifier wins.
IdToDoc(pdocs) ==
  [i \in {pdocs[k].id : k \in 1..Len(pdocs)} |->
     pdocs[CHOOSE k \in 1..Len(pdocs) :
             /\ pdocs[k].id = i
             /\ \A m \in 1..Len(pdocs) : pdocs[m].id = i => m <= k]]

\* The orders in which a set can be iterated: its enumerations without
\* repetition.
Enumerations(S) ==
  {s \in [1..Cardinality(S) -> S] : \A i, j \in 1..Cardinality(S) : s[i] = s[j] => i = j}

\* variant: one candidate per processed document, not per identifier
CandidatesPerDocument(order, pdocs) ==
  SelectSeq(pdocs, LAMBDA d : d.id \in Range(order))

\* The list comprehension over candidate_ids, given the iteration order
\* `order` of the set.
CandidatesInOrder(order, pdocs) ==
  LET id_to_doc == IdToDoc(pdocs)
      kept == SelectSeq(order, LAMBDA i : i \in DOMAIN id_to_doc)
  IN [k \in 1..Len(kept) |-> id_to_doc[kept[k]]]

(***************************************************************************)
(* _calculate_rank                                                         *)
(***************************************************************************)
SpamWord == <<115, 112, 97, 109>>

\* "spam" in doc.id
ContainsSpam(id) ==
  \E i \in 1..Len(id) : i + 3 <= Len(id) /\ SubSeq(id, i, i + 3) = SpamWord

\* variant: no special case for "spam"
RankOfNoSpamRule(doc, qtokens) ==
  LET unique_query_tokens == Range(qtokens)
      found_tokens == SelectSeq(doc.tokens, LAMBDA t : t \in unique_query_tokens)
  IN [id |-> doc.id, tokens |-> doc.tokens,
      match_count |-> Cardinality(Range(found_tokens)),
      total_occurrences |-> Len(found_tokens)]

\* variant: match_count counts occurrences, not distinct tokens
RankOfNoSet(doc, qtokens) ==
  LET unique_query_tokens == Range(qtokens)
      found_tokens == SelectSeq(doc.tokens, LAMBDA t : t \in unique_query_tokens)
  IN IF ContainsSpam(doc.id)
       THEN [id |-> doc.id, tokens |-> doc.tokens,
             match_count |-> 0, total_occurrences |-> 0]
       ELSE [id |-> doc.id, tokens |-> doc.tokens,
             match_count |-> Len(found_tokens),
             total_occurrences |-> Len(found_tokens)]

RankOf(doc, qtokens) ==
  LET unique_query_tokens == Range(qtokens)
      found_tokens == SelectSeq(doc.tokens, LAMBDA t : t \in unique_query_tokens)
  IN IF ContainsSpam(doc.id)
       THEN [id |-> doc.id, tokens |-> doc.tokens,
             match_count |-> 0, total_occurrences |-> 0]
       ELSE [id |-> doc.id, tokens |-> doc.tokens,
             match_count |-> Cardinality(Range(found_tokens)),
             total_occurrences |-> Len(found_tokens)]

CalculateRankOf(cands, qtokens) ==
  [k \in 1..Len(cands) |-> RankOf(cands[k], qtokens)]

(***************************************************************************)
(* _sort_ranked_docs                                                       *)
(***************************************************************************)
\* str < str: lexicographic on code points, a proper prefix is smaller
RECURSIVE StrLessFrom(_, _, _)
StrLessFrom(a, b, i) ==
  IF i > Len(b) THEN FALSE
  ELSE IF i > Len(a) THEN TRUE
  ELSE IF a[i] < b[i] THEN TRUE
  ELSE IF a[i] > b[i] THEN FALSE
  ELSE StrLessFrom(a, b, i + 1)

StrLess(a, b) == StrLessFrom(a, b, 1)

\* variant: total_occurrences is not part of the key
KeyLessNoOccurrences(x, y) ==
  \/ -x.match_count < -y.match_count
  \/ /\ x.match_count = y.match_count
     /\ StrLess(x.id, y.id)

\* variant: the identifier is compared in descending order
KeyLessIdDescending(x, y) ==
  \/ -x.match_count < -y.match_count
  \/ /\ x.match_count = y.match_count
     /\ -x.total_occurrences < -y.total_occurrences
  \/ /\ x.match_count = y.match_count
     /\ x.total_occurrences = y.total_occurrences
     /\ StrLess(y.id, x.id)

\* variant: the identifier is not part of the key
KeyLessNoId(x, y) ==
  \/ -x.match_count < -y.match_count
  \/ /\ x.match_count = y.match_count
     /\ -x.total_occurrences < -y.total_occurrences

\* key(x) < key(y) for key = (-match_count, -total_occurrences, id)
KeyLess(x, y) ==
  \/ -x.match_count < -y.match_count
  \/ /\ x.match_count = y.match_count
     /\ -x.total_occurrences < -y.total_occurrences
  \/ /\ x.match_count = y.match_count
     /\ x.total_occurrences = y.total_occurrences
     /\ StrLess(x.id, y.id)

\* Insert x into the sorted list s after every element that is not greater
\* (sorted() is stable).
RECURSIVE InsertSorted(_, _)
InsertSorted(s, x) ==
  IF s = <<>> THEN <<x>>
  ELSE IF KeyLess(x, Head(s)) THEN <<x>> \o s
  ELSE <<Head(s)>> \o InsertSorted(Tail(s), x)

RECURSIVE SortFrom(_, _, _)
SortFrom(ds, i, acc) ==
  IF i > Len(ds) THEN acc ELSE SortFrom(ds, i + 1, InsertSorted(acc, ds[i]))

SortRankedDocs(ds) == SortFrom(ds, 1, <<>>)

IdsOf(ds) == [k \in 1..Len(ds) |-> ds[k].id]

(***************************************************************************)
(* Inputs                                                                  *)
(***************************************************************************)
IdA == <<97>>
IdZ == <<122>>
IdSpam == <<115, 112, 97, 109>>
IdXSpam == <<120, 115, 112, 97, 109>>

WordShoot == <<115, 104, 111, 111, 116>>
WordPint == <<112, 105, 110, 116>>

SeqsUpTo(S, n) == UNION {[1..k -> S] : k \in 0..n}

RECURSIVE Concat(_)
Concat(ss) == IF ss = <<>> THEN <<>> ELSE Head(ss) \o Concat(Tail(ss))

\* words joined by single spaces
RECURSIVE JoinWords(_)
JoinWords(ws) ==
  IF ws = <<>> THEN <<>>
  ELSE IF Len(ws) = 1 THEN ws[1]
  ELSE ws[1] \o <<32>> \o JoinWords(Tail(ws))

\* "shoot" i times, then "pint" j times
CountedText(i, j) ==
  JoinWords([k \in 1..(i + j) |-> IF k <= i THEN WordShoot ELSE WordPint])

TextsOfCounts(n) ==
  {CountedText(c[1], c[2]) : c \in {d \in (0..n) \X (0..n) : d[1] + d[2] <= n}}

\* k words, w1 and w2 in turn
AlternatingText(k, w1, w2) ==
  JoinWords([i \in 1..k |-> IF i % 2 = 1 THEN w1 ELSE w2])

DocsOver(I, T) == [id : I, text : T]

\* Queries of Spec, SpecS and SpecT
Queries ==
  {AlternatingText(k, WordShoot, WordPint) : k \in 0..MaxQueryWords}
    \cup {AlternatingText(k, WordPint, WordShoot) : k \in 0..MaxQueryWords}

\* Spec: lower-case texts of the words "shoot" and "pint", three
\* identifiers of which one contains "spam"; identifiers may repeat in a
\* list.
Ids == {IdA, IdZ, IdSpam}
Texts == TextsOfCounts(MaxWords)

(***************************************************************************)
(* search(): one action per step of the function body                      *)
(***************************************************************************)
InitWith(D, Q) ==
  /\ docs \in D
  /\ query \in Q
  /\ pc = "start"
  /\ processed_docs = <<>>
  /\ query_tokens = <<>>
  /\ index = <<>>
  /\ candidates = <<>>
  /\ ranked_docs = <<>>
  /\ result = <<>>

Init == InitWith(SeqsUpTo(DocsOver(Ids, Texts), MaxDocs), Queries)

\* lines 35-36
Preprocess ==
  /\ pc = "start"
  /\ processed_docs' = Preprocessing(docs)
  /\ query_tokens' = PreprocessingText(query)
  /\ pc' = "preprocessed"
  /\ UNCHANGED <<docs, query, index, candidates, ranked_docs, result>>

\* lines 38-39
ReturnEmptyQuery ==
  /\ pc = "preprocessed"
  /\ query_tokens = <<>>
  /\ result' = <<>>
  /\ pc' = "done"
  /\ UNCHANGED <<docs, query, processed_docs, query_tokens, index, candidates, ranked_docs>>

\* line 42
BuildIndex ==
  /\ pc = "preprocessed"
  /\ query_tokens # <<>>
  /\ index' = BuildInvertedIndex(docs)
  /\ pc' = "indexed"
  /\ UNCHANGED <<docs, query, processed_docs, query_tokens, candidates, ranked_docs, result>>

\* line 43; the iteration order of the set candidate_ids is not specified
GetCandidates ==
  /\ pc = "indexed"
  /\ \E order \in Enumerations(CandidateIds(index, query_tokens)) :
       candidates' = CandidatesInOrder(order, processed_docs)
  /\ pc' = "selected"
  /\ UNCHANGED <<docs, query, processed_docs, query_tokens, index, ranked_docs, result>>

\* lines 45-46
ReturnNoCandidates ==
  /\ pc = "selected"
  /\ candidates = <<>>
  /\ result' = <<>>
  /\ pc' = "done"
  /\ UNCHANGED <<docs, query, processed_docs, query_tokens, index, candidates, ranked_docs>>

\* line 48
CalculateRank ==
  /\ pc = "selected"
  /\ candidates # <<>>
  /\ ranked_docs' = CalculateRankOf(candidates, query_tokens)
  /\ pc' = "ranked"
  /\ UNCHANGED <<docs, query, processed_docs, query_tokens, index, candidates, result>>

\* lines 49-51
SortAndReturn ==
  /\ pc = "ranked"
  /\ result' = IdsOf(SortRankedDocs(ranked_docs))
  /\ pc' = "done"
  /\ UNCHANGED <<docs, query, processed_docs, query_tokens, index, candidates, ranked_docs>>

Next ==
  \/ Preprocess
  \/ ReturnEmptyQuery
  \/ BuildIndex
  \/ GetCandidates
  \/ ReturnNoCandidates
  \/ CalculateRank
  \/ SortAndReturn

Spec == Init /\ [][Next]_vars

\* SpecS: as Spec, with two identifiers containing "spam"
IdsS == {IdZ, IdSpam, IdXSpam}

InitS == InitWith(SeqsUpTo(DocsOver(IdsS, Texts), MaxDocs), Queries)

SpecS == InitS /\ [][Next]_vars

\* SpecT: two identifiers without "spam", "shoot" up to MaxWordsT times in
\* a text, followed or not by "pint"
IdsT == {IdA, IdZ}
TextsT == {CountedText(c[1], c[2]) : c \in (0..MaxWordsT) \X (0..1)}

InitT == InitWith(SeqsUpTo(DocsOver(IdsT, TextsT), MaxDocsT), Queries)

SpecT == InitT /\ [][Next]_vars

\* SpecP: up to MaxDocsP documents, "shoot" up to MaxWordsP times in each
\* text and in the query
IdsP == {IdA, IdZ, IdSpam}
TextsP == {CountedText(i, 0) : i \in 0..MaxWordsP}
QueriesP == {CountedText(i, 0) : i \in 0..MaxQueryWords}

InitP == InitWith(SeqsUpTo(DocsOver(IdsP, TextsP), MaxDocsP), QueriesP)

SpecP == InitP /\ [][Next]_vars

\* SpecX: texts with capitals, punctuation, words of fewer than four
\* characters and words that extend other words, built by concatenating
\* pieces; queries may also hold U+017F, whose upper case is "S".
PieceShoot == <<83, 104, 111, 111, 116, 33>>
PieceSho == <<115, 104, 111>>
PieceSpace == <<32>>
PieceLongS == <<383, 104, 111, 111, 116>>

TextsOfPieces(P, n) == {Concat(ps) : ps \in SeqsUpTo(P, n)}

IdsX == {IdA, IdZ}
TextsX == TextsOfPieces({PieceShoot, PieceSho}, MaxPieces)
QueriesX ==
  TextsOfPieces({PieceShoot, PieceSho, PieceSpace, PieceLongS}, MaxQueryPieces)

InitX == InitWith(SeqsUpTo(DocsOver(IdsX, TextsX), MaxDocsX), QueriesX)

SpecX == InitX /\ [][Next]_vars

(***************************************************************************)
(* search() as a function of its inputs, for one iteration order of the    *)
(* candidate-identifier set (the order sorted() leaves for equal keys is   *)
(* the only place where that order could show).                            *)
(***************************************************************************)
SearchWith(D, q, order) ==
  LET pdocs == Preprocessing(D)
      qtokens == PreprocessingText(q)
      cands == CandidatesInOrder(order, pdocs)
  IN IF qtokens = <<>> THEN <<>>
     ELSE IF cands = <<>> THEN <<>>
     ELSE IdsOf(SortRankedDocs(CalculateRankOf(cands, qtokens)))

SearchOrders(D, q) ==
  Enumerations(CandidateIds(BuildInvertedIndex(D), PreprocessingText(q)))

(***************************************************************************)
(* Vocabulary of the properties, defined on the inputs docs and query.     *)
(***************************************************************************)
DocIds == {docs[k].id : k \in 1..Len(docs)}

IdUnique == \A i, j \in 1..Len(docs) : docs[i].id = docs[j].id => i = j

NoDuplicates(s) == \A i, j \in 1..Len(s) : s[i] = s[j] => i = j

QueryWords == Range(PreprocessingText(query))

WordsOfDoc(d) == Range(PreprocessingText(d.text))

\* the document an identifier of the result stands for: the last document
\* of docs carrying it (the only one when docs is identifier-unique)
DocOfId(id) ==
  docs[CHOOSE k \in 1..Len(docs) :
         /\ docs[k].id = id
         /\ \A m \in 1..Len(docs) : docs[m].id = id => m <= k]

\* number of distinct query words the document contains
DistinctIn(d) == Cardinality(WordsOfDoc(d) \cap QueryWords)

\* total number of occurrences of query words in the document
OccurrencesIn(d) ==
  LET toks == PreprocessingText(d.text)
      words == QueryWords
  IN Cardinality({k \in 1..Len(toks) : toks[k] \in words})

OccurrencesOf(d, t) == CountOf(PreprocessingText(d.text), t)

Before(x, y) ==
  \E i, j \in 1..Len(result) : i < j /\ result[i] = x /\ result[j] = y

(***************************************************************************)
(* C1: search returns a list without duplicate identifiers, each of which  *)
(* is the identifier of some document of docs, also when an identifier is  *)
(* repeated in docs.                                                       *)
(***************************************************************************)
C1_NoDuplicateNoFabricatedIds ==
  pc = "done" => /\ NoDuplicates(result)
                 /\ Range(result) \subseteq DocIds

C1_Witness ==
  /\ pc = "done"
  /\ \E i, j \in 1..Len(docs) :
       i < j /\ docs[i].id = docs[j].id /\ docs[i].id \in Range(result)

(***************************************************************************)
(* C2: for identifier-unique docs and a query with at least one token, the *)
(* set of returned identifiers is exactly the set of identifiers of the    *)
(* documents sharing a token with the query, spam or not.                  *)
(***************************************************************************)
C2_ExactlyOverlappingDocs ==
  (pc = "done" /\ IdUnique /\ QueryWords # {}) =>
     Range(result) = {docs[k].id : k \in {m \in 1..Len(docs) :
                                            WordsOfDoc(docs[m]) \cap QueryWords # {}}}

C2_Witness ==
  /\ pc = "done" /\ IdUnique /\ Cardinality(QueryWords) = 2
  /\ \E i, j \in 1..Len(docs) :
       /\ ContainsSpam(docs[i].id) /\ docs[i].id \in Range(result)
       /\ QueryWords \cap WordsOfDoc(docs[i]) # QueryWords
       /\ WordsOfDoc(docs[j]) \cap QueryWords = {} /\ docs[j].id \notin Range(result)

(***************************************************************************)
(* C6: in the result no identifier containing "spam" comes before an       *)
(* identifier without "spam" whose document has a positive score (contains *)
(* a query token), and identifiers containing "spam" are in ascending      *)
(* order among themselves.  The score of a returned identifier is that of  *)
(* the document it stands for (DocOfId).                                   *)
(***************************************************************************)
C6_SpamDemoted ==
  pc = "done" =>
    \A i, j \in 1..Len(result) :
      i < j =>
        /\ ~(/\ ContainsSpam(result[i])
             /\ ~ContainsSpam(result[j])
             /\ DistinctIn(DocOfId(result[j])) > 0)
        /\ (ContainsSpam(result[i]) /\ ContainsSpam(result[j])
              => StrLess(result[i], result[j]))

C6_Witness ==
  /\ pc = "done"
  /\ result = <<IdZ, IdSpam>>
  /\ IdsOf(candidates) = <<IdSpam, IdZ>>
  /\ OccurrencesIn(DocOfId(IdSpam)) >= OccurrencesIn(DocOfId(IdZ))
  /\ OccurrencesIn(DocOfId(IdZ)) > 0

(***************************************************************************)
(* C7: for identifier-unique docs, if two returned non-spam documents A    *)
(* and B have the same tokens except that one query token they share       *)
(* occurs more often in A, then A comes at or above B in the result,       *)
(* whatever the order of their identifiers.                                *)
(***************************************************************************)
DiffersOnlyInCountOf(a, b, t) ==
  /\ t \in QueryWords
  /\ OccurrencesOf(a, t) > OccurrencesOf(b, t)
  /\ OccurrencesOf(b, t) > 0
  /\ WordsOfDoc(a) = WordsOfDoc(b)
  /\ \A u \in WordsOfDoc(a) : u # t => OccurrencesOf(a, u) = OccurrencesOf(b, u)

C7_RankingMonotone ==
  (pc = "done" /\ IdUnique) =>
    \A i, j \in 1..Len(docs) :
      (/\ docs[i].id \in Range(result) /\ docs[j].id \in Range(result)
       /\ ~ContainsSpam(docs[i].id) /\ ~ContainsSpam(docs[j].id)
       /\ \E t \in QueryWords : DiffersOnlyInCountOf(docs[i], docs[j], t))
      => Before(docs[i].id, docs[j].id)

C7_Witness ==
  /\ pc = "done" /\ IdUnique
  /\ result = <<IdZ, IdA>>
  /\ \E t \in QueryWords : DiffersOnlyInCountOf(DocOfId(IdZ), DocOfId(IdA), t)

(***************************************************************************)
(* C8: the result is sorted by (distinct query words contained,            *)
(* descending; occurrences of query words, descending; identifier,         *)
(* ascending): of two consecutive identifiers the earlier one is not       *)
(* greater under this key.                                                 *)
(***************************************************************************)
\* the key as the claim states it: the counts are those of the text
ContainedKeyLess(a, b) ==
  \/ DistinctIn(a) > DistinctIn(b)
  \/ DistinctIn(a) = DistinctIn(b) /\ OccurrencesIn(a) > OccurrencesIn(b)
  \/ /\ DistinctIn(a) = DistinctIn(b)
     /\ OccurrencesIn(a) = OccurrencesIn(b)
     /\ StrLess(a.id, b.id)

ScoredDistinct(d) == IF ContainsSpam(d.id) THEN 0 ELSE DistinctIn(d)

ScoredOccurrences(d) == IF ContainsSpam(d.id) THEN 0 ELSE OccurrencesIn(d)

\* the two counts of a document, given the query words
ScoredKeyOf(d, words) ==
  LET toks == PreprocessingText(d.text)
  IN IF ContainsSpam(d.id) THEN <<0, 0>>
     ELSE <<Cardinality(Range(toks) \cap words),
            Cardinality({k \in 1..Len(toks) : toks[k] \in words})>>

\* the two counts of the first k identifiers of the result
RECURSIVE ScoredKeysFrom(_, _)
ScoredKeysFrom(k, words) ==
  IF k = 0 THEN <<>>
  ELSE Append(ScoredKeysFrom(k - 1, words), ScoredKeyOf(DocOfId(result[k]), words))

ScoredKeys == ScoredKeysFrom(Len(result), QueryWords)

ScoredKeyLess(a, b) ==
  \/ ScoredDistinct(a) > ScoredDistinct(b)
  \/ ScoredDistinct(a) = ScoredDistinct(b) /\ ScoredOccurrences(a) > ScoredOccurrences(b)
  \/ /\ ScoredDistinct(a) = ScoredDistinct(b)
     /\ ScoredOccurrences(a) = ScoredOccurrences(b)
     /\ StrLess(a.id, b.id)

LnMicro(n) ==
  <<0, 693147, 1098612, 1386294, 1609438, 1791759, 1945910, 2079442>>[n]

\* df(t): the size of the postings map of t
DocFrequency(t) ==
  LET idx == BuildInvertedIndex(docs)
  IN IF t \in DOMAIN idx THEN Cardinality(DOMAIN idx[t]) ELSE 0

\* idf(t) in millionths; off by at most 1 from the real value
IdfMicro(t) == LnMicro(Len(docs) + 1) - LnMicro(DocFrequency(t) + 1) + 1000000

RECURSIVE SumOver(_, _, _)
SumOver(S, d, acc) ==
  IF S = {} THEN acc
  ELSE LET t == CHOOSE u \in S : TRUE
       IN SumOver(S \ {t}, d, acc + OccurrencesOf(d, t) * IdfMicro(t))

\* score(d) in millionths; off by at most OccurrencesIn(d) from the real value
TfIdfMicro(d) == SumOver(QueryWords, d, 0)

\* score(a) > score(b) beyond the rounding of LnMicro
TfIdfGreater(a, b) ==
  TfIdfMicro(a) > TfIdfMicro(b) + OccurrencesIn(a) + OccurrencesIn(b)

C3_OrderedByTfIdf ==
  pc = "done" =>
    \A i, j \in 1..Len(result) :
      (/\ ~ContainsSpam(result[i]) /\ ~ContainsSpam(result[j])
       /\ TfIdfGreater(DocOfId(result[i]), DocOfId(result[j])))
      => i < j

\* C3 as amended: the result is ordered by the number of distinct query
\* tokens contained, descending, then by the number of occurrences of query
\* tokens, descending (both taken as 0 for an identifier containing "spam").
C3_OrderedByMatchCounts ==
  pc = "done" =>
    LET key == ScoredKeys
    IN \A i, j \in 1..Len(result) :
         (\/ key[i][1] > key[j][1]
          \/ key[i][1] = key[j][1] /\ key[i][2] > key[j][2])
         => i < j

C3_Witness ==
  /\ pc = "done"
  /\ result = <<IdZ, IdA>>
  /\ DistinctIn(DocOfId(IdZ)) = 2 /\ OccurrencesIn(DocOfId(IdZ)) = 2
  /\ DistinctIn(DocOfId(IdA)) = 1 /\ OccurrencesIn(DocOfId(IdA)) = 3

(***************************************************************************)
(* C10: for identifier-unique docs the result is the same for every        *)
(* permutation of docs and every iteration order of the candidate set.     *)
(***************************************************************************)
PermutationsOf(s) ==
  {[k \in 1..Len(s) |-> s[f[k]]] : f \in Enumerations(1..Len(s))}

C10_OrderIndependent ==
  (pc = "done" /\ IdUnique) =>
    \A p \in PermutationsOf(docs) :
      \A order \in SearchOrders(p, query) :
        result = SearchWith(p, query, order)

C10_Witness ==
  /\ pc = "done" /\ IdUnique
  /\ Len(docs) = 3 /\ Len(result) = 3
  /\ IdsOf(candidates) # result
  /\ IdsOf(docs) # result
  /\ \E i, j \in 1..3 : i # j /\ docs[i].text # docs[j].text

\* For docs with a repeated identifier the result can depend on the order
\* of docs: the index holds the terms of every occurrence, the scored
\* tokens are those of the last one.
C10_RepeatedIdOrderMatters ==
  /\ pc = "done" /\ ~IdUnique
  /\ \E p \in PermutationsOf(docs) :
       \E order \in SearchOrders(p, query) :
         result # SearchWith(p, query, order)

(***************************************************************************)
(* C4: for a query made of a single word w of any length, with or without  *)
(* punctuation around it, the returned identifiers are exactly those of    *)
(* the documents whose text contains w as a whole word, compared           *)
(* case-insensitively.                                                     *)
(***************************************************************************)
ContainsWholeWord(text, w) ==
  \E k \in 1..Len(FindAllWords(text)) :
    LowerText(FindAllWords(text)[k]) = LowerText(w)

C4_SingleWordAnyLength ==
  (pc = "done" /\ Len(FindAllWords(query)) = 1) =>
     Range(result) =
       {docs[k].id : k \in {m \in 1..Len(docs) :
                              ContainsWholeWord(docs[m].text, FindAllWords(query)[1])}}

(***************************************************************************)
(* C5: a query that is empty or made only of separators and words of       *)
(* fewer than 4 characters gives the empty list, and a document whose text *)
(* is made only of separators and such words is never returned: no         *)
(* returned identifier stands for such a document (DocOfId).               *)
(***************************************************************************)
OnlyShortWords(text) ==
  \A k \in 1..Len(FindAllWords(text)) : Len(FindAllWords(text)[k]) < 4

Upper(c) ==
  IF c >= 97 /\ c <= 122 THEN c - 32
  ELSE IF c = 383 THEN 83
  ELSE c

UpperText(text) == [i \in 1..Len(text) |-> Upper(text[i])]

WithTexts(D, F(_)) == [k \in 1..Len(D) |-> [id |-> D[k].id, text |-> F(D[k].text)]]

SameResultFor(D, q) ==
  \A order \in SearchOrders(D, q) : result = SearchWith(D, q, order)

C9_CaseInsensitive ==
  pc = "done" =>
    /\ SameResultFor(docs, UpperText(query))
    /\ SameResultFor(docs, LowerText(query))
    /\ SameResultFor(WithTexts(docs, UpperText), query)
    /\ SameResultFor(WithTexts(docs, LowerText), query)
====
